---- MODULE Spec2Model ----
(***************************************************************************)
(* Model of pkg/users/resolver.go: GitUserResolver resolves git users     *)
(* (commit signatures, scm users) to UserDetails records, consulting a     *)
(* cache first and the git provider's FindLogin second.                    *)
(*                                                                         *)
(* Strings are sequences of one-character strings, so that the string      *)
(* conversions of the code (Replace, ToLower, ToValidName) are computed.   *)
(* A Go pointer is a sequence of length at most one: Nil or <<value>>.     *)
(***************************************************************************)
EXTENDS Integers, Sequences, FiniteSets, TLC

VARIABLES
    cache,      \* GitUserResolver.cache: record stored under each key
    directory,  \* GitUserResolver.GitProvider: the answer of FindLogin per login
    call,       \* the last operation: arguments, cache before it, results
    prev,       \* the Resolve right before the last one, if of the same user
    firstKey,   \* per login, the key of the first record Resolve returned
    procs,      \* the Resolve calls running concurrently: position and locals
    lastWrite   \* the record of the last successful concurrent cache write

vars == <<cache, directory, call, prev, firstKey, procs, lastWrite>>

\* ------------------------------------------------------------- bounds
\* longest slice handed to GitUserSliceAsUserDetailsSlice
MaxBatch == 3

\* number of Resolve calls running concurrently
NumProcs == 2

\* ------------------------------------------------------------ strings
Empty == <<>>

Nil == <<>>

Ptr(x) == <<x>>

LowerChars == {"d", "e", "x"}

DigitChars == {"1"}

\* unicode.ToLower on one character of the alphabet
LowerOf(ch) == IF ch = "D" THEN "d" ELSE ch

RECURSIVE ToLower(_)
\* strings.ToLower
ToLower(s) ==
    IF s = Empty THEN Empty ELSE <<LowerOf(Head(s))>> \o ToLower(Tail(s))

RECURSIVE ReplaceSpaces(_)
\* strings.Replace(s, " ", "-", -1)
ReplaceSpaces(s) ==
    IF s = Empty THEN Empty
    ELSE <<IF Head(s) = " " THEN "-" ELSE Head(s)>> \o ReplaceSpaces(Tail(s))

RECURSIVE TrimDashes(_)
\* strips every trailing "-"
TrimDashes(s) ==
    IF s # Empty /\ s[Len(s)] = "-" THEN TrimDashes(SubSeq(s, 1, Len(s) - 1))
    ELSE s

RECURSIVE ValidChars(_, _, _)
\* the character loop of the name sanitizer: characters before the first
\* letter are dropped, upper case is lowered, every other character that is
\* not a lower-case letter or a digit becomes "-", runs of "-" collapse
ValidChars(s, first, lastDash) ==
    IF s = Empty THEN Empty
    ELSE LET ch == LowerOf(Head(s)) IN
         IF first
         THEN IF ch \in LowerChars
              THEN <<ch>> \o ValidChars(Tail(s), FALSE, FALSE)
              ELSE ValidChars(Tail(s), TRUE, FALSE)
         ELSE LET c == IF ch \in LowerChars \cup DigitChars THEN ch ELSE "-" IN
              IF c = "-" /\ lastDash
              THEN ValidChars(Tail(s), FALSE, TRUE)
              ELSE <<c>> \o ValidChars(Tail(s), FALSE, c = "-")

\* naming.ToValidName: a valid resource name of at most 63 characters
ToValidName(name) ==
    LET answer == TrimDashes(ValidChars(name, TRUE, FALSE)) IN
    IF Len(answer) > 63 THEN TrimDashes(SubSeq(answer, 1, 63)) ELSE answer

\* ------------------------------------------------------------- inputs
NamePool == {Empty, <<"d">>, <<"D", " ", "d">>}

LoginPool == {Empty, <<"d">>}

EmailPool == {Empty, <<"e">>}

\* scm.User values the callers pass (Link and Avatar are never read)
Users == [Login : LoginPool, Name : NamePool, Email : EmailPool]

\* object.Signature values
Signatures == [Name : NamePool, Email : EmailPool]

\* scm.User values the git provider answers with: the login may differ from
\* the login asked for (case, or missing altogether)
ProviderUsers ==
    [Login : {Empty, <<"d">>, <<"D">>}, Name : {<<"D", " ", "d">>}, Email : {<<"x">>}]

\* the error of FindLogin, as scmhelpers.IsScmNotFound classifies it
ErrKinds == {"nil", "notfound", "other"}

Responses == [user : {Nil} \cup {Ptr(u) : u \in ProviderUsers}, err : ErrKinds]

\* --------------------------------------------------------------- errors
NoErr == [msg |-> "", arg |-> Empty, cause |-> "nil"]

\* errors.Wrapf(cause, msg, arg)
Wrapf(cause, msg, arg) == [msg |-> msg, arg |-> arg, cause |-> cause]

\* ---------------------------------------------------- UserDetailService
EmptyCache == [k \in {} |-> Nil]

\* cache.GetUser(key): the record stored under key, or nil
GetUser(c, key) == IF key \in DOMAIN c THEN Ptr(c[key]) ELSE Nil

\* cache.CreateOrUpdateUser(u): upsert keyed by the record's Name; a storage
\* error leaves the store as it was
CreateOrUpdateUser(c, u, storageFails) ==
    IF storageFails
    THEN [err |-> "storage", cache |-> c]
    ELSE [err |-> "nil",
          cache |-> [k \in DOMAIN c \cup {u.Name} |-> IF k = u.Name THEN u ELSE c[k]]]

\* ------------------------------------------------------- git provider
\* GitProvider.Users.FindLogin(ctx, login)
FindLogin(dir, login) == dir[login]

\* scmhelpers.IsScmNotFound(err)
IsScmNotFound(err) == err = "notfound"

\* ------------------------------------------------------------- Resolve
\* what one call returns and did: the record and error returned, the cache
\* afterwards, and how often it read the cache, asked the provider and wrote
Out(ret, err, c, reads, finds, writes) ==
    [ret |-> ret, err |-> err, cache |-> c,
     reads |-> reads, finds |-> finds, writes |-> writes]

\* GitUserToUser with the email left out
GitUserToUserNoEmail(gitUser) ==
    [Login |-> gitUser.Login, Name |-> gitUser.Name, Email |-> Empty]

\* GitUserToUser: type conversion from a git user to a UserDetails
GitUserToUser(gitUser) ==
    [Login |-> gitUser.Login, Name |-> gitUser.Name, Email |-> gitUser.Email]

\* the guard of Resolve without the test of the name
NothingToResolveNilOnly(user) == user = Nil

\* the guard of Resolve: nothing to resolve for no user or a user without name
\* (the resolver itself is always constructed, so r == nil never holds)
NothingToResolve(user) == user = Nil \/ user[1].Name = Empty

\* the no-login branch returning nil, nil after a successful write
NoLoginPathDropsRecord(user, c, storageFails) ==
    LET u == GitUserToUser(user[1])
        w == CreateOrUpdateUser(c, u, storageFails)
    IN  IF w.err # "nil"
        THEN Out(Ptr(u), Wrapf(w.err, "failed to cache User", Empty), w.cache, 1, 0, 1)
        ELSE Out(Nil, NoErr, w.cache, 1, 0, 1)

\* the branch of Resolve for a user without login: build the record locally,
\* cache it, and return it even when caching failed
NoLoginPath(user, c, storageFails) ==
    LET u == GitUserToUser(user[1])
        w == CreateOrUpdateUser(c, u, storageFails)
    IN  IF w.err # "nil"
        THEN Out(Ptr(u), Wrapf(w.err, "failed to cache User", Empty), w.cache, 1, 0, 1)
        ELSE Out(Ptr(u), NoErr, w.cache, 1, 0, 1)

\* the test after FindLogin by the nil check alone
LookupIsEmptyNilOnly(scmUser, err) == scmUser = Nil

\* the first test after FindLogin: no user, or a not-found error
LookupIsEmpty(scmUser, err) == scmUser = Nil \/ IsScmNotFound(err)

\* the name of a provider user taken without sanitizing
UserKeyUnsanitized(scmUser) ==
    IF scmUser.Login = Empty
    THEN ToLower(ReplaceSpaces(scmUser.Name))
    ELSE scmUser.Login

\* the name of a provider user taken from the login alone, without the
\* fallback to the display name
UserKeyNoFallback(scmUser) == ToValidName(ToValidName(scmUser.Login))

\* the name under which a provider user is stored: its login, or else its
\* display name with spaces replaced and lowered, sanitized twice
UserKey(scmUser) ==
    LET login == IF scmUser.Login = Empty
                 THEN ToLower(ReplaceSpaces(scmUser.Name))
                 ELSE scmUser.Login
        id == ToValidName(login)
    IN  ToValidName(id)

\* the end of Resolve returning the record along with a write error
StoreProviderUserReturnsRecord(scmUser, c, storageFails) ==
    LET u == [GitUserToUser(scmUser) EXCEPT !.Name = UserKey(scmUser)]
        w == CreateOrUpdateUser(c, u, storageFails)
    IN  IF w.err # "nil"
        THEN Out(Ptr(u), Wrapf(w.err, "failed to create User", Empty), w.cache, 1, 1, 1)
        ELSE Out(Ptr(u), NoErr, w.cache, 1, 1, 1)

\* the end of Resolve caching the record before it is renamed
StoreProviderUserRenamesAfterWrite(scmUser, c, storageFails) ==
    LET u == [GitUserToUser(scmUser) EXCEPT !.Name = UserKey(scmUser)]
        w == CreateOrUpdateUser(c, GitUserToUser(scmUser), storageFails)
    IN  IF w.err # "nil"
        THEN Out(Nil, Wrapf(w.err, "failed to create User", Empty), w.cache, 1, 1, 1)
        ELSE Out(Ptr(u), NoErr, w.cache, 1, 1, 1)

\* the end of Resolve: convert the provider's user, name it by UserKey, cache
\* it, and return no record when caching failed
StoreProviderUser(scmUser, c, storageFails) ==
    LET u == [GitUserToUser(scmUser) EXCEPT !.Name = UserKey(scmUser)]
        w == CreateOrUpdateUser(c, u, storageFails)
    IN  IF w.err # "nil"
        THEN Out(Nil, Wrapf(w.err, "failed to create User", Empty), w.cache, 1, 1, 1)
        ELSE Out(Ptr(u), NoErr, w.cache, 1, 1, 1)

\* the branch of Resolve for a user with a login: ask the provider
LoginPath(user, c, dir, storageFails) ==
    LET found == FindLogin(dir, user[1].Login) IN
    IF LookupIsEmpty(found.user, found.err)
    THEN Out(Nil, NoErr, c, 1, 1, 0)
    ELSE IF found.err # "nil"
    THEN Out(Nil, Wrapf(found.err, "failed to find user", user[1].Login), c, 1, 1, 0)
    ELSE StoreProviderUser(found.user[1], c, storageFails)

\* Resolve asking the provider before it looks into the cache
ResolveAsksBeforeCache(user, c, dir, storageFails) ==
    IF NothingToResolve(user)
    THEN Out(Nil, NoErr, c, 0, 0, 0)
    ELSE IF user[1].Login # Empty
    THEN LoginPath(user, c, dir, storageFails)
    ELSE LET u == GetUser(c, user[1].Name) IN
         IF u # Nil
         THEN Out(u, NoErr, c, 1, 0, 0)
         ELSE NoLoginPath(user, c, storageFails)

\* Resolve filling the empty login and email of a cached record from the
\* user and caching the result
ResolveMergesOnHit(user, c, dir, storageFails) ==
    IF NothingToResolve(user)
    THEN Out(Nil, NoErr, c, 0, 0, 0)
    ELSE LET u == GetUser(c, user[1].Name) IN
         IF u # Nil
         THEN LET merged ==
                    [u[1] EXCEPT !.Login = IF @ = Empty THEN user[1].Login ELSE @,
                                 !.Email = IF @ = Empty THEN user[1].Email ELSE @]
                  w == CreateOrUpdateUser(c, merged, FALSE)
              IN  Out(Ptr(merged), NoErr, w.cache, 1, 0, 1)
         ELSE IF user[1].Login = Empty
         THEN NoLoginPath(user, c, storageFails)
         ELSE LoginPath(user, c, dir, storageFails)

\* GitUserResolver.Resolve
Resolve(user, c, dir, storageFails) ==
    IF NothingToResolve(user)
    THEN Out(Nil, NoErr, c, 0, 0, 0)
    ELSE LET u == GetUser(c, user[1].Name) IN
         IF u # Nil
         THEN Out(u, NoErr, c, 1, 0, 0)
         ELSE IF user[1].Login = Empty
         THEN NoLoginPath(user, c, storageFails)
         ELSE LoginPath(user, c, dir, storageFails)

\* GitSignatureAsUser looking into the cache before its test
GitSignatureAsUserLooksUpFirst(signature, c, dir, storageFails) ==
    LET u == GetUser(c, signature.Name) IN
    IF u # Nil
    THEN Out(u, NoErr, c, 1, 0, 0)
    ELSE IF signature.Name = Empty /\ signature.Email = Empty
    THEN Out(Nil, NoErr, c, 1, 0, 0)
    ELSE NoLoginPath(Ptr([Login |-> Empty, Name |-> signature.Name,
                          Email |-> signature.Email]), c, storageFails)

\* GitSignatureAsUser taking a name that is a valid login for the login
GitSignatureAsUserGuessesLogin(signature, c, dir, storageFails) ==
    IF signature.Name = Empty /\ signature.Email = Empty
    THEN Out(Nil, NoErr, c, 0, 0, 0)
    ELSE Resolve(Ptr([Login |-> IF ToValidName(signature.Name) = signature.Name
                                THEN signature.Name ELSE Empty,
                      Name |-> signature.Name, Email |-> signature.Email]),
                 c, dir, storageFails)

\* GitUserResolver.GitSignatureAsUser
GitSignatureAsUser(signature, c, dir, storageFails) ==
    IF signature.Name = Empty /\ signature.Email = Empty
    THEN Out(Nil, NoErr, c, 0, 0, 0)
    ELSE Resolve(Ptr([Login |-> Empty, Name |-> signature.Name, Email |-> signature.Email]),
                 c, dir, storageFails)

\* what a batch returns and did
BatchOut(answer, err, c, reads, finds, writes, resolved) ==
    [answer |-> answer, err |-> err, cache |-> c,
     reads |-> reads, finds |-> finds, writes |-> writes, resolved |-> resolved]

RECURSIVE SliceFromStopsAtNil(_, _, _, _, _, _)
\* the loop leaving at the first user that resolves to nil
SliceFromStopsAtNil(users, i, acc, c, dir, failAt) ==
    IF i > Len(users)
    THEN BatchOut(acc.answer, NoErr, c, acc.reads, acc.finds, acc.writes, i - 1)
    ELSE LET r == Resolve(Ptr(users[i]), c, dir, failAt = i)
             reads == acc.reads + r.reads
             finds == acc.finds + r.finds
             writes == acc.writes + r.writes
         IN  IF r.err # NoErr
             THEN BatchOut(<<>>, r.err, r.cache, reads, finds, writes, i)
             ELSE IF r.ret = Nil
             THEN BatchOut(acc.answer, NoErr, r.cache, reads, finds, writes, i)
             ELSE SliceFromStopsAtNil(users, i + 1,
                            [answer |-> Append(acc.answer, r.ret[1]),
                             reads |-> reads, finds |-> finds, writes |-> writes],
                            r.cache, dir, failAt)

RECURSIVE SliceFromReturnsPartial(_, _, _, _, _, _)
\* the loop returning the answer so far along with the error
SliceFromReturnsPartial(users, i, acc, c, dir, failAt) ==
    IF i > Len(users)
    THEN BatchOut(acc.answer, NoErr, c, acc.reads, acc.finds, acc.writes, i - 1)
    ELSE LET r == Resolve(Ptr(users[i]), c, dir, failAt = i)
             reads == acc.reads + r.reads
             finds == acc.finds + r.finds
             writes == acc.writes + r.writes
         IN  IF r.err # NoErr
             THEN BatchOut(acc.answer, r.err, r.cache, reads, finds, writes, i)
             ELSE SliceFromReturnsPartial(users, i + 1,
                            [answer |-> IF r.ret # Nil
                                        THEN Append(acc.answer, r.ret[1])
                                        ELSE acc.answer,
                             reads |-> reads, finds |-> finds, writes |-> writes],
                            r.cache, dir, failAt)

RECURSIVE SliceFrom(_, _, _, _, _, _)
\* the loop of GitUserSliceAsUserDetailsSlice from index i on; acc is the
\* answer and the counts so far, failAt the index whose cache write fails
SliceFrom(users, i, acc, c, dir, failAt) ==
    IF i > Len(users)
    THEN BatchOut(acc.answer, NoErr, c, acc.reads, acc.finds, acc.writes, i - 1)
    ELSE LET r == Resolve(Ptr(users[i]), c, dir, failAt = i)
             reads == acc.reads + r.reads
             finds == acc.finds + r.finds
             writes == acc.writes + r.writes
         IN  IF r.err # NoErr
             THEN BatchOut(<<>>, r.err, r.cache, reads, finds, writes, i)
             ELSE SliceFrom(users, i + 1,
                            [answer |-> IF r.ret # Nil
                                        THEN Append(acc.answer, r.ret[1])
                                        ELSE acc.answer,
                             reads |-> reads, finds |-> finds, writes |-> writes],
                            r.cache, dir, failAt)

\* GitUserSliceAsUserDetailsSlice undoing the cache writes when it fails
GitUserSliceRollsBack(users, c, dir, failAt) ==
    LET r == SliceFrom(users, 1, [answer |-> <<>>, reads |-> 0, finds |-> 0, writes |-> 0],
                       c, dir, failAt)
    IN  IF r.err # NoErr THEN [r EXCEPT !.cache = c] ELSE r

\* GitUserResolver.GitUserSliceAsUserDetailsSlice
GitUserSliceAsUserDetailsSlice(users, c, dir, failAt) ==
    SliceFrom(users, 1, [answer |-> <<>>, reads |-> 0, finds |-> 0, writes |-> 0],
              c, dir, failAt)

\* ------------------------------------------------------ state machine
\* logins the callers ask the provider about
AskedLogins == LoginPool \ {Empty}

\* users of the slices handed to GitUserSliceAsUserDetailsSlice
SliceUsers == {u \in Users : u.Email = Empty /\ (u.Name = Empty => u.Login = Empty)}

RECURSIVE SlicesUpTo(_)
SlicesUpTo(n) ==
    IF n = 0 THEN {<<>>}
    ELSE LET shorter == SlicesUpTo(n - 1) IN
         shorter \cup {Append(s, u) : s \in {t \in shorter : Len(t) = n - 1}, u \in SliceUsers}

Slices == SlicesUpTo(MaxBatch)

\* the last operation: its arguments, the cache before it, and its outcome
\* (storageFailed: it wrote to the cache and the write failed; failAt: the
\* user of the slice whose cache write failed, 0 when none did)
NoCall ==
    [op |-> "none", user |-> Nil, signature |-> Nil, users |-> <<>>,
     storageFailed |-> FALSE, failAt |-> 0, before |-> EmptyCache,
     ret |-> Nil, answer |-> <<>>, err |-> NoErr,
     reads |-> 0, finds |-> 0, writes |-> 0, resolved |-> 0]

\* no Resolve of the same user came right before the last operation
NoEarlier ==
    [op |-> "none", storageFailed |-> FALSE, hit |-> FALSE,
     ret |-> Nil, err |-> NoErr, finds |-> 0]

\* what is remembered of a Resolve when the same user is resolved again
Earlier(c) ==
    [op |-> c.op, storageFailed |-> c.storageFailed,
     hit |-> (c.user # Nil /\ c.user[1].Name \in DOMAIN c.before),
     ret |-> c.ret, err |-> c.err, finds |-> c.finds]

\* the concurrent callers
Procs == 1..NumProcs

\* a caller that is not inside Resolve
Idle ==
    [pc |-> "idle", user |-> Nil, hit |-> "none", found |-> Nil, rec |-> Nil,
     ret |-> Nil, err |-> NoErr, reads |-> 0, finds |-> 0, writes |-> 0]

Init ==
    /\ cache = EmptyCache
    /\ directory \in [AskedLogins -> Responses]
    /\ call = NoCall
    /\ prev = NoEarlier
    /\ firstKey = [l \in AskedLogins |-> Nil]
    /\ procs = [p \in Procs |-> Idle]
    /\ lastWrite = Nil

\* a caller resolves one user
CallResolve(user, storageFails) ==
    LET r == Resolve(user, cache, directory, storageFails) IN
    /\ cache' = r.cache
    /\ call' = [NoCall EXCEPT !.op = "Resolve", !.user = user,
                              !.storageFailed = (storageFails /\ r.writes > 0),
                              !.before = cache,
                              !.ret = r.ret, !.err = r.err, !.reads = r.reads,
                              !.finds = r.finds, !.writes = r.writes,
                              !.resolved = 1]
    /\ prev' = IF call.op = "Resolve" /\ call.user = user
               THEN Earlier(call)
               ELSE NoEarlier
    /\ firstKey' =
         IF /\ user # Nil
            /\ user[1].Login \in AskedLogins
            /\ r.ret # Nil
            /\ r.err = NoErr
            /\ firstKey[user[1].Login] = Nil
         THEN [firstKey EXCEPT ![user[1].Login] = Ptr(r.ret[1].Name)]
         ELSE firstKey
    /\ UNCHANGED <<directory, procs, lastWrite>>

\* a caller resolves a commit signature
CallGitSignatureAsUser(signature, storageFails) ==
    LET r == GitSignatureAsUser(signature, cache, directory, storageFails) IN
    /\ cache' = r.cache
    /\ call' = [NoCall EXCEPT !.op = "GitSignatureAsUser", !.signature = Ptr(signature),
                              !.storageFailed = (storageFails /\ r.writes > 0),
                              !.before = cache,
                              !.ret = r.ret, !.err = r.err, !.reads = r.reads,
                              !.finds = r.finds, !.writes = r.writes,
                              !.resolved = IF signature.Name = Empty /\ signature.Email = Empty
                                           THEN 0 ELSE 1]
    /\ prev' = NoEarlier
    /\ UNCHANGED <<directory, firstKey, procs, lastWrite>>

\* a caller resolves a slice of users; the cache write of user failAt fails
CallGitUserSliceAsUserDetailsSlice(users, failAt) ==
    LET r == GitUserSliceAsUserDetailsSlice(users, cache, directory, failAt) IN
    /\ cache' = r.cache
    /\ call' = [NoCall EXCEPT !.op = "GitUserSliceAsUserDetailsSlice", !.users = users,
                              !.storageFailed = (r.err # NoErr /\ r.err.cause = "storage"),
                              !.failAt = IF r.err # NoErr /\ r.err.cause = "storage"
                                         THEN r.resolved ELSE 0,
                              !.before = cache,
                              !.answer = r.answer, !.err = r.err, !.reads = r.reads,
                              !.finds = r.finds, !.writes = r.writes,
                              !.resolved = r.resolved]
    /\ prev' = NoEarlier
    /\ UNCHANGED <<directory, firstKey, procs, lastWrite>>

Next ==
    \/ \E user \in {Nil} \cup {Ptr(u) : u \in Users}, storageFails \in BOOLEAN :
          CallResolve(user, storageFails)
    \/ \E signature \in Signatures, storageFails \in BOOLEAN :
          CallGitSignatureAsUser(signature, storageFails)

Spec == Init /\ [][Next]_vars

\* the resolver used on one slice of users, on an empty cache or on the cache
\* that resolving one commit signature left
NextSlice ==
    \/ /\ call.op = "none"
       /\ \E signature \in {g \in Signatures : g.Name # Empty /\ g.Email = Empty} :
             CallGitSignatureAsUser(signature, FALSE)
    \/ /\ call.op # "GitUserSliceAsUserDetailsSlice"
       /\ \E users \in Slices, failAt \in 0..MaxBatch :
             CallGitUserSliceAsUserDetailsSlice(users, failAt)

SliceSpec == Init /\ [][NextSlice]_vars

\* ------------------------------------------- concurrent Resolve calls
\* A caller runs Resolve in up to three steps, one per access to what the
\* callers share: the cache read, the provider call, the cache write. The
\* resolver takes no lock, so the steps of the callers interleave freely.

\* a caller entering Resolve with user
Started(user) == [Idle EXCEPT !.pc = "read", !.user = user]

\* Resolve up to and with the cache read: the guard, GetUser, and the choice
\* of the branch (for a user without login the record to cache is built)
ReadStep(p, c) ==
    IF NothingToResolve(p.user)
    THEN [p EXCEPT !.pc = "done"]
    ELSE LET u == GetUser(c, p.user[1].Name) IN
         IF u # Nil
         THEN [p EXCEPT !.pc = "done", !.hit = "hit", !.ret = u, !.reads = @ + 1]
         ELSE IF p.user[1].Login = Empty
         THEN [p EXCEPT !.pc = "write", !.hit = "miss", !.reads = @ + 1,
                        !.rec = Ptr(GitUserToUser(p.user[1]))]
         ELSE [p EXCEPT !.pc = "find", !.hit = "miss", !.reads = @ + 1]

\* the provider call asked again once after an error
FindStepRetries(p, dir) ==
    LET found == FindLogin(dir, p.user[1].Login)
        q == [p EXCEPT !.found = Ptr(found), !.finds = @ + 1]
    IN  IF LookupIsEmpty(found.user, found.err)
        THEN [q EXCEPT !.pc = "done"]
        ELSE IF found.err # "nil"
        THEN IF p.finds = 0
             THEN q
             ELSE [q EXCEPT !.pc = "done",
                            !.err = Wrapf(found.err, "failed to find user", p.user[1].Login)]
        ELSE [q EXCEPT !.pc = "write",
                       !.rec = Ptr([GitUserToUser(found.user[1])
                                      EXCEPT !.Name = UserKey(found.user[1])])]

\* the provider call with the record left under the provider's display name
FindStepKeepsName(p, dir) ==
    LET found == FindLogin(dir, p.user[1].Login)
        q == [p EXCEPT !.found = Ptr(found), !.finds = @ + 1]
    IN  IF LookupIsEmpty(found.user, found.err)
        THEN [q EXCEPT !.pc = "done"]
        ELSE IF found.err # "nil"
        THEN [q EXCEPT !.pc = "done",
                       !.err = Wrapf(found.err, "failed to find user", p.user[1].Login)]
        ELSE [q EXCEPT !.pc = "write", !.rec = Ptr(GitUserToUser(found.user[1]))]

\* Resolve from FindLogin to the record to cache: the provider call, its
\* classification, and the record named by UserKey
FindStep(p, dir) ==
    LET found == FindLogin(dir, p.user[1].Login)
        q == [p EXCEPT !.found = Ptr(found), !.finds = @ + 1]
    IN  IF LookupIsEmpty(found.user, found.err)
        THEN [q EXCEPT !.pc = "done"]
        ELSE IF found.err # "nil"
        THEN [q EXCEPT !.pc = "done",
                       !.err = Wrapf(found.err, "failed to find user", p.user[1].Login)]
        ELSE [q EXCEPT !.pc = "write",
                       !.rec = Ptr([GitUserToUser(found.user[1])
                                      EXCEPT !.Name = UserKey(found.user[1])])]

\* the cache write of Resolve and its return, on either branch
WriteStep(p, c, storageFails) ==
    LET w == CreateOrUpdateUser(c, p.rec[1], storageFails)
        noLogin == p.user[1].Login = Empty
    IN  [cache |-> w.cache,
         ok |-> w.err = "nil",
         proc |-> IF w.err # "nil"
                  THEN [p EXCEPT !.pc = "done", !.writes = @ + 1,
                                 !.ret = IF noLogin THEN p.rec ELSE Nil,
                                 !.err = Wrapf(w.err,
                                               IF noLogin THEN "failed to cache User"
                                                          ELSE "failed to create User",
                                               Empty)]
                  ELSE [p EXCEPT !.pc = "done", !.writes = @ + 1, !.ret = p.rec]]

\* the callers resolve, at the same time, users of one name and one login on
\* an empty cache
InitConc ==
    /\ cache = EmptyCache
    /\ directory \in [AskedLogins -> Responses]
    /\ call = NoCall
    /\ prev = NoEarlier
    /\ firstKey = [l \in AskedLogins |-> Nil]
    /\ \E name \in NamePool, login \in LoginPool :
          procs \in [Procs -> {Started(Ptr([Login |-> login, Name |-> name, Email |-> e])) :
                                  e \in EmailPool}]
    /\ lastWrite = Nil

\* caller p reads the cache
ReadCache(p) ==
    /\ procs[p].pc = "read"
    /\ procs' = [procs EXCEPT ![p] = ReadStep(procs[p], cache)]
    /\ UNCHANGED <<cache, directory, call, prev, firstKey, lastWrite>>

\* caller p asks the provider
AskProvider(p) ==
    /\ procs[p].pc = "find"
    /\ procs' = [procs EXCEPT ![p] = FindStep(procs[p], directory)]
    /\ UNCHANGED <<cache, directory, call, prev, firstKey, lastWrite>>

\* caller p writes the cache
WriteCache(p, storageFails) ==
    /\ procs[p].pc = "write"
    /\ LET w == WriteStep(procs[p], cache, storageFails) IN
       /\ procs' = [procs EXCEPT ![p] = w.proc]
       /\ cache' = w.cache
       /\ lastWrite' = IF w.ok THEN procs[p].rec ELSE lastWrite
    /\ UNCHANGED <<directory, call, prev, firstKey>>

NextConc ==
    \/ \E p \in Procs : ReadCache(p)
    \/ \E p \in Procs : AskProvider(p)
    \/ \E p \in Procs, storageFails \in BOOLEAN : WriteCache(p, storageFails)

ConcSpec == InitConc /\ [][NextConc]_vars

\* -------------------------------------------------------------- claims
\* the last operation was a Resolve of a user with a name
ResolvedNamed ==
    call.op = "Resolve" /\ call.user # Nil /\ call.user[1].Name # Empty

\* ... whose name was a key of the cache
ResolvedHit == ResolvedNamed /\ call.user[1].Name \in DOMAIN call.before

\* ... whose name was no key of the cache
ResolvedMiss == ResolvedNamed /\ call.user[1].Name \notin DOMAIN call.before

\* ... and who has a login, so that the provider was asked
ResolvedAsked == ResolvedMiss /\ call.user[1].Login # Empty

\* what the provider answers for the login of the last operation's user
Answer == FindLogin(directory, call.user[1].Login)

\* the last operation repeated the Resolve right before it, and no cache
\* write failed in either
ResolvedTwice ==
    /\ call.op = "Resolve"
    /\ prev.op = "Resolve"
    /\ ~prev.storageFailed
    /\ ~call.storageFailed

\* C1: a provider error that is not not-found makes Resolve return an error
\* "failed to find user {login}" and no record, without a cache write,
\* whatever user comes with the error (no user included).
C1_QueryErrorIsReturned ==
    (ResolvedAsked /\ Answer.err = "other")
        => /\ call.err = Wrapf("other", "failed to find user", call.user[1].Login)
           /\ call.ret = Nil
           /\ call.writes = 0
           /\ cache = call.before

\* C2: after a first successful Resolve of a user with a login that was not
\* cached, a second Resolve of the same user returns the cached record and
\* does not ask the provider again (one provider call over the two).
C2_SecondResolveIsCached ==
    (/\ ResolvedNamed
     /\ call.user[1].Login # Empty
     /\ prev.op = "Resolve"
     /\ ~prev.hit
     /\ prev.ret # Nil
     /\ prev.err = NoErr)
        => /\ call.ret = prev.ret
           /\ call.err = NoErr
           /\ call.finds = 0
           /\ prev.finds + call.finds = 1

\* C3: every successful Resolve of a user with a given login returns a record
\* with the key the first successful Resolve of that login returned, whatever
\* was resolved in between.
C3_KeyStablePerLogin ==
    (/\ ResolvedNamed
     /\ call.user[1].Login # Empty
     /\ call.ret # Nil
     /\ call.err = NoErr)
        => firstKey[call.user[1].Login] = Ptr(call.ret[1].Name)

\* C4 as stated: two Resolve calls in a row with the same user, no cache
\* write failing, yield a record with the same key both times, or (nil, nil)
\* both times.
C4_SameKeyOrNilNil ==
    ResolvedTwice
        => \/ /\ prev.ret # Nil
              /\ call.ret # Nil
              /\ prev.ret[1].Name = call.ret[1].Name
           \/ /\ prev.ret = Nil /\ prev.err = NoErr
              /\ call.ret = Nil /\ call.err = NoErr

\* C4 as amended: two Resolve calls in a row with the same user, no cache
\* write failing, yield a record with the same key and no error both times,
\* or (nil, nil) both times, or no record and the same "failed to find user"
\* error both times.
C4_SameOutcomeTwice ==
    ResolvedTwice
        => \/ /\ prev.ret # Nil /\ prev.err = NoErr
              /\ call.ret # Nil /\ call.err = NoErr
              /\ prev.ret[1].Name = call.ret[1].Name
           \/ /\ prev.ret = Nil /\ prev.err = NoErr
              /\ call.ret = Nil /\ call.err = NoErr
           \/ /\ prev.ret = Nil /\ call.ret = Nil
              /\ prev.err = call.err
              /\ call.err.msg = "failed to find user"

\* two Resolve calls in a row of a user the provider knows, the first one
\* storing the record, both returning a record
C4_Witness ==
    /\ ResolvedTwice
    /\ prev.finds = 1
    /\ prev.ret # Nil
    /\ call.ret # Nil

\* C5: when the cache holds a record under the user's name, Resolve returns
\* exactly that record and no error, whatever the user's login and email,
\* without asking the provider and without writing: the cache is unchanged.
C5_CacheHitReturnsCached ==
    ResolvedHit
        => /\ call.ret = Ptr(call.before[call.user[1].Name])
           /\ call.err = NoErr
           /\ call.finds = 0
           /\ call.writes = 0
           /\ cache = call.before

\* a hit for a user with a login, on a record that has neither the user's
\* login nor the user's email
C5_Witness ==
    /\ ResolvedHit
    /\ call.user[1].Login # Empty
    /\ call.ret # Nil
    /\ call.ret[1].Login # call.user[1].Login
    /\ call.ret[1].Email # call.user[1].Email

\* C6: for no user, or a user with an empty name, Resolve returns (nil, nil)
\* and neither reads the cache, nor writes it, nor asks the provider.
C6_NothingToResolve ==
    (call.op = "Resolve" /\ (call.user = Nil \/ call.user[1].Name = Empty))
        => /\ call.ret = Nil
           /\ call.err = NoErr
           /\ call.reads = 0
           /\ call.finds = 0
           /\ call.writes = 0
           /\ cache = call.before

\* a user with login and email but no name, resolved over a filled cache
C6_Witness ==
    /\ call.op = "Resolve"
    /\ call.user # Nil
    /\ call.user[1].Name = Empty
    /\ call.user[1].Login # Empty
    /\ call.user[1].Email # Empty
    /\ call.before # EmptyCache
    /\ call.ret = Nil

\* C7: for a user without login whose name is not cached, when the cache
\* write succeeds, Resolve returns the record with an empty login and the
\* name and email as given, asks no provider, and the cache holds that record
\* under the user's name afterwards.
C7_NoLoginRecord ==
    (ResolvedMiss /\ call.user[1].Login = Empty /\ ~call.storageFailed)
        => LET u == [Login |-> Empty, Name |-> call.user[1].Name,
                     Email |-> call.user[1].Email]
           IN  /\ call.ret = Ptr(u)
               /\ call.err = NoErr
               /\ call.finds = 0
               /\ call.user[1].Name \in DOMAIN cache
               /\ cache[call.user[1].Name] = u

\* a user with name and email and no login, stored by the call
C7_Witness ==
    /\ ResolvedMiss
    /\ call.user[1].Login = Empty
    /\ call.user[1].Email # Empty
    /\ ~call.storageFailed
    /\ call.writes = 1
    /\ call.user[1].Name \in DOMAIN cache

\* C8: for a user with a login whose name is not cached, when the provider
\* reports not-found or returns no user, Resolve returns (nil, nil) and the
\* cache is not written: it is as before the call.
C8_NotFoundIsNilNil ==
    (ResolvedAsked /\ (IsScmNotFound(Answer.err) \/ Answer.user = Nil))
        => /\ call.ret = Nil
           /\ call.err = NoErr
           /\ call.writes = 0
           /\ cache = call.before

\* the provider reported not-found, over a filled cache
C8_Witness ==
    /\ ResolvedAsked
    /\ IsScmNotFound(Answer.err)
    /\ call.finds = 1
    /\ call.before # EmptyCache
    /\ call.ret = Nil

\* C9: for a user with a login whose name is not cached, when the provider
\* returns (without error) a user with a login and the cache write succeeds,
\* Resolve returns a record whose key is the sanitized login of the
\* provider's user and whose login and email are the provider's, and the
\* cache holds that record under that key afterwards.
C9_ProviderRecord ==
    (/\ ResolvedAsked
     /\ Answer.user # Nil
     /\ Answer.err = "nil"
     /\ Answer.user[1].Login # Empty
     /\ ~call.storageFailed)
        => LET key == ToValidName(Answer.user[1].Login) IN
           /\ call.ret # Nil
           /\ call.err = NoErr
           /\ call.ret[1].Name = key
           /\ call.ret[1].Login = Answer.user[1].Login
           /\ call.ret[1].Email = Answer.user[1].Email
           /\ key \in DOMAIN cache
           /\ cache[key] = call.ret[1]

\* the provider returned a user whose login is not its own sanitized form
C9_Witness ==
    /\ ResolvedAsked
    /\ Answer.user # Nil
    /\ Answer.err = "nil"
    /\ Answer.user[1].Login # Empty
    /\ ToValidName(Answer.user[1].Login) # Answer.user[1].Login
    /\ ~call.storageFailed
    /\ call.ret # Nil

\* C10: when the cache write of Resolve fails, Resolve returns an error
\* wrapping the storage error; a record comes with it exactly on the path of
\* a user without login, and it is the locally built record.
C10_WriteFailure ==
    (call.op = "Resolve" /\ call.storageFailed)
        => /\ call.err # NoErr
           /\ call.err.cause = "storage"
           /\ (call.ret # Nil <=> call.user[1].Login = Empty)
           /\ (call.user[1].Login = Empty
                 => call.ret = Ptr(GitUserToUser(call.user[1])))

\* the cache write failed for a user the provider returned
C10_Witness ==
    /\ call.op = "Resolve"
    /\ call.storageFailed
    /\ call.user[1].Login # Empty
    /\ call.finds = 1
    /\ call.ret = Nil

\* ------------------------------------------------ claims about slices
\* the last operation resolved a slice of users
ResolvedSlice == call.op = "GitUserSliceAsUserDetailsSlice"

RECURSIVE OutcomeAt(_)
\* what Resolve gives for the i-th user of the last slice, on the cache the
\* users before it left
OutcomeAt(i) ==
    Resolve(Ptr(call.users[i]),
            IF i = 1 THEN call.before ELSE OutcomeAt(i - 1).cache,
            directory, call.failAt = i)

\* the users of the last slice that resolve to a record
Resolving == {i \in 1..Len(call.users) : OutcomeAt(i).ret # Nil}

\* the first user of the last slice whose Resolve returns an error, if any
FirstError ==
    {i \in 1..Len(call.users) :
        /\ OutcomeAt(i).err # NoErr
        /\ \A j \in 1..(i - 1) : OutcomeAt(j).err = NoErr}

RECURSIVE SumTo(_, _)
\* the sum of a count of OutcomeAt over the first n users
SumTo(n, count) ==
    IF n = 0 THEN 0 ELSE SumTo(n - 1, count) + OutcomeAt(n)[count]

\* C11: when GitUserSliceAsUserDetailsSlice finishes without error, its
\* result is the records Resolve returns for the users, in the order of the
\* users: users resolving to nil are skipped, a user that occurs twice gives
\* one element per occurrence that resolves.
C11_AnswerIsResolvedInOrder ==
    (ResolvedSlice /\ call.err = NoErr)
        => /\ \A i \in 1..Len(call.users) : OutcomeAt(i).err = NoErr
           /\ Len(call.answer) = Cardinality(Resolving)
           /\ \A i \in Resolving :
                 call.answer[Cardinality({j \in Resolving : j <= i})]
                    = OutcomeAt(i).ret[1]

\* a slice with a user that resolves to nil, then the same user twice, both
\* occurrences in the result
C11_Witness ==
    /\ ResolvedSlice
    /\ call.err = NoErr
    /\ Len(call.users) = 3
    /\ Resolving = {2, 3}
    /\ call.users[2] = call.users[3]
    /\ Len(call.answer) = 2

\* C12: when the Resolve of the i-th user returns an error,
\* GitUserSliceAsUserDetailsSlice returns that error and an empty result, not
\* the records resolved before i, and resolves no user after i: no cache
\* read, cache write or provider call is made for it.
C12_FailsFast ==
    ResolvedSlice
        => \A i \in FirstError :
              /\ call.err = OutcomeAt(i).err
              /\ call.answer = <<>>
              /\ call.resolved = i
              /\ call.reads = SumTo(i, "reads")
              /\ call.finds = SumTo(i, "finds")
              /\ call.writes = SumTo(i, "writes")
              /\ cache = OutcomeAt(i).cache

\* the second of three users fails after the first resolved to a record
C12_Witness ==
    /\ ResolvedSlice
    /\ Len(call.users) = 3
    /\ FirstError = {2}
    /\ OutcomeAt(1).ret # Nil
    /\ call.users[3].Name # Empty
    /\ call.err # NoErr

\* C20: when GitUserSliceAsUserDetailsSlice fails, the cache is the one the
\* users resolved before the failing one left: every key they wrote and
\* every key there was before is still there, nothing is rolled back.
C20_WritesSurviveFailure ==
    (ResolvedSlice /\ call.err # NoErr)
        => \A i \in FirstError :
              /\ cache = IF i = 1 THEN call.before ELSE OutcomeAt(i - 1).cache
              /\ DOMAIN call.before \subseteq DOMAIN cache
              /\ \A j \in 1..(i - 1) :
                    OutcomeAt(j).writes = 1
                       => OutcomeAt(j).ret[1].Name \in DOMAIN cache

\* the first user wrote a record, the second failed, the record is cached
C20_Witness ==
    /\ ResolvedSlice
    /\ call.err # NoErr
    /\ FirstError = {2}
    /\ OutcomeAt(1).writes = 1
    /\ OutcomeAt(1).ret[1].Name \notin DOMAIN call.before
    /\ OutcomeAt(1).ret[1].Name \in DOMAIN cache

\* ------------------------------------- claims about the cache and keys
\* C13 as stated: when Resolve is given a user whose name is cached and who
\* carries an email or a login the cached record lacks, the cached record
\* for that name has the new information afterwards.
C13_HitMergesNewInformation ==
    ResolvedHit
        => LET old == call.before[call.user[1].Name]
               new == cache[call.user[1].Name]
           IN  /\ (old.Email = Empty /\ call.user[1].Email # Empty)
                     => new.Email = call.user[1].Email
               /\ (old.Login = Empty /\ call.user[1].Login # Empty)
                     => new.Login = call.user[1].Login

\* C13 as amended: when Resolve is given a user whose name is cached and who
\* carries an email or a login the cached record lacks, the cached record is
\* returned and stays as it was: it still lacks what the user carries.
C13_HitLeavesRecordAsItWas ==
    ResolvedHit
        => LET old == call.before[call.user[1].Name]
               new == cache[call.user[1].Name]
           IN  /\ new = old
               /\ call.ret = Ptr(old)
               /\ (old.Email = Empty /\ call.user[1].Email # Empty)
                     => new.Email = Empty
               /\ (old.Login = Empty /\ call.user[1].Login # Empty)
                     => new.Login = Empty

\* a user with login and email hits a record that has neither
C13_Witness ==
    /\ ResolvedHit
    /\ call.user[1].Email # Empty
    /\ call.user[1].Login # Empty
    /\ call.before[call.user[1].Name].Email = Empty
    /\ call.before[call.user[1].Name].Login = Empty

\* the last operation resolved a commit signature
ResolvedSignature == call.op = "GitSignatureAsUser"

\* C15: for a signature with an empty name and an empty email,
\* GitSignatureAsUser returns (nil, nil) and touches neither the cache nor
\* the provider.
C15_EmptySignature ==
    (/\ ResolvedSignature
     /\ call.signature[1].Name = Empty
     /\ call.signature[1].Email = Empty)
        => /\ call.ret = Nil
           /\ call.err = NoErr
           /\ call.reads = 0
           /\ call.finds = 0
           /\ call.writes = 0
           /\ cache = call.before

\* an empty signature resolved over a filled cache
C15_Witness ==
    /\ ResolvedSignature
    /\ call.signature[1].Name = Empty
    /\ call.signature[1].Email = Empty
    /\ call.before # EmptyCache
    /\ call.ret = Nil

\* C16: GitSignatureAsUser never asks the provider. A signature with a name
\* ends in a cache hit (the cached record, no write) or on the no-login path
\* (a record without login, written to the cache); a signature with an
\* email and no name gives (nil, nil) and no cache write.
C16_SignatureNeverAsksProvider ==
    ResolvedSignature
        => LET g == call.signature[1] IN
           /\ call.finds = 0
           /\ (g.Name # Empty /\ g.Name \in DOMAIN call.before)
                 => /\ call.ret = Ptr(call.before[g.Name])
                    /\ call.err = NoErr
                    /\ call.writes = 0
                    /\ cache = call.before
           /\ (g.Name # Empty /\ g.Name \notin DOMAIN call.before)
                 => /\ call.ret = Ptr([Login |-> Empty, Name |-> g.Name,
                                       Email |-> g.Email])
                    /\ call.writes = 1
                    /\ (~call.storageFailed => cache[g.Name] = call.ret[1])
           /\ (g.Name = Empty /\ g.Email # Empty)
                 => /\ call.ret = Nil
                    /\ call.err = NoErr
                    /\ call.writes = 0
                    /\ cache = call.before

\* a signature whose name is a login the provider knows, stored without it
C16_Witness ==
    /\ ResolvedSignature
    /\ call.signature[1].Name \in AskedLogins
    /\ FindLogin(directory, call.signature[1].Name).user # Nil
    /\ FindLogin(directory, call.signature[1].Name).err = "nil"
    /\ call.writes = 1
    /\ call.ret # Nil
    /\ call.ret[1].Login = Empty

\* C18: on the login path the key of the stored record is the sanitizer
\* applied once to the base: the provider user's login, or for an empty
\* login its display name with spaces replaced by hyphens and lowered;
\* sanitizing the key again gives the key, and with the fallback the
\* record's login stays empty.
C18_KeyIsSanitizedBase ==
    (/\ ResolvedAsked
     /\ Answer.user # Nil
     /\ Answer.err = "nil"
     /\ ~call.storageFailed)
        => LET scmUser == Answer.user[1]
               base == IF scmUser.Login # Empty
                       THEN scmUser.Login
                       ELSE ToLower(ReplaceSpaces(scmUser.Name))
               key == ToValidName(base)
           IN  /\ call.ret # Nil
               /\ call.ret[1].Name = key
               /\ ToValidName(key) = key
               /\ key \in DOMAIN cache
               /\ cache[key].Name = key
               /\ (scmUser.Login = Empty => call.ret[1].Login = Empty)

\* the provider returned a user without login, stored under its display name
C18_Witness ==
    /\ ResolvedAsked
    /\ Answer.user # Nil
    /\ Answer.err = "nil"
    /\ Answer.user[1].Login = Empty
    /\ ~call.storageFailed
    /\ call.ret # Nil
    /\ call.ret[1].Name = <<"d", "-", "d">>

\* C19: whenever Resolve returns a record and no error, the cache holds
\* exactly that record under the record's Name afterwards, on the hit, the
\* no-login and the login path alike.
C19_WriteThrough ==
    (call.op = "Resolve" /\ call.ret # Nil /\ call.err = NoErr)
        => /\ call.ret[1].Name \in DOMAIN cache
           /\ cache[call.ret[1].Name] = call.ret[1]

\* a record of the provider returned under a key that is not the user's name
C19_Witness ==
    /\ ResolvedAsked
    /\ call.ret # Nil
    /\ call.err = NoErr
    /\ call.ret[1].Name # call.user[1].Name
    /\ call.ret[1].Name \in DOMAIN cache

\* ------------------------------------- claims about concurrent calls
\* every caller has returned
AllDone == \A p \in Procs : procs[p].pc = "done"

\* the callers resolve one and the same user, who has a name and a login
SameAskedUser ==
    /\ \A p \in Procs : procs[p].user = procs[1].user
    /\ procs[1].user # Nil
    /\ procs[1].user[1].Name # Empty
    /\ procs[1].user[1].Login # Empty

\* C14: when concurrent Resolve calls for the same user with a login, not
\* cached, have all returned and a cache write succeeded, the cache holds one
\* record, under the key of the provider's user, and it is the record of the
\* last write. (That all callers can miss, ask and write is C14_Witness.)
C14_LastWriteWins ==
    (AllDone /\ SameAskedUser /\ lastWrite # Nil)
        => LET scmUser == FindLogin(directory, procs[1].user[1].Login).user[1]
               key == ToValidName(IF scmUser.Login # Empty
                                  THEN scmUser.Login
                                  ELSE ToLower(ReplaceSpaces(scmUser.Name)))
           IN  /\ DOMAIN cache = {key}
               /\ cache[key] = lastWrite[1]
               /\ lastWrite[1].Name = key

\* all callers missed the cache, asked the provider and wrote: no lookup in
\* flight is shared
C14_Witness ==
    /\ AllDone
    /\ SameAskedUser
    /\ \A p \in Procs :
          /\ procs[p].hit = "miss"
          /\ procs[p].finds = 1
          /\ procs[p].writes = 1
          /\ procs[p].ret # Nil
    /\ lastWrite # Nil
    /\ Cardinality(DOMAIN cache) = 1

\* C17: a Resolve call reads the cache at most once, asks the provider at
\* most once and writes the cache at most once, in that order; it asks only
\* after a miss and for a user with a login, writes only after a miss (with
\* a login only after the provider returned a user without error), and does
\* not ask again after an error.
C17_OneReadFindWriteInOrder ==
    \A p \in Procs :
        LET q == procs[p]
            answered == q.found # Nil /\ q.found[1].user # Nil /\ q.found[1].err = "nil"
        IN  /\ q.reads <= 1
            /\ q.finds <= q.reads
            /\ q.writes <= q.reads
            /\ (q.user # Nil /\ q.user[1].Login # Empty) => q.writes <= q.finds
            /\ q.finds = 1 => (q.hit = "miss" /\ q.user[1].Login # Empty)
            /\ q.writes = 1 => q.hit = "miss"
            /\ (q.writes = 1 /\ q.user[1].Login # Empty) => answered
            /\ (q.finds >= 1 /\ ~answered) => (q.pc = "done" /\ q.finds = 1 /\ q.writes = 0)
            /\ q.hit = "hit" => (q.finds = 0 /\ q.writes = 0)

\* a caller that has returned after one read, one provider call and one write
C17_Witness ==
    \E p \in Procs :
        /\ procs[p].pc = "done"
        /\ procs[p].reads = 1
        /\ procs[p].finds = 1
        /\ procs[p].writes = 1

====
